---- MODULE Spec2Model ----
(***************************************************************************)
(* Model of the Super App client SDK.                                      *)
(*                                                                         *)
(* Three variants of the same client live in the repository:               *)
(*   "go"    - src/unnamed/part_000 (Register takes appURL)                *)
(*   "goOld" - src/go/main.go       (CallFunction takes url)               *)
(*   "ts"    - src/typescript/main.ts                                      *)
(*                                                                         *)
(* The host is the environment.  What it answers to each request is fixed  *)
(* at the start of a behaviour (probeScript, regScript, callScript); when  *)
(* it answers is left to the interleaving of the actions.  Every network   *)
(* request is a suspension point of the client, so every request is split  *)
(* in a send step and a receive step.                                      *)
(***************************************************************************)
EXTENDS Integers, Sequences, FiniteSets, TLC

VARIABLES
    variant,      \* which source variant runs
    mode,         \* "factory" (construct-and-discover) or "separate" (ts: new, then initialize)
    apiKey,       \* the apiKey argument given at construction
    args,         \* the arguments of register: [appName, functions, appURL]
    probeScript,  \* host: outcome of the probe of candidate i
    regScript,    \* host: outcome of the i-th register attempt
    callScript,   \* host: [hdr, body] outcome of the call-function request
    sdk,          \* the client instance: [exists, APIKey, BaseURL]
    handle,       \* TRUE once the caller holds the instance
    dpc,          \* discovery: "idle", "send", "wait", "done"
    didx,         \* discovery: index of the candidate of the current iteration
    probes,       \* discovery: probe requests sent by the current run
    rpc,          \* register: "idle", "send", "wait", "done"
    ri,           \* register: loop counter i
    lastErr,      \* register: lastErr / lastError
    regPayload,   \* register: the payload built before the loop
    regSent,      \* register: requests sent by the current call
    regDelays,    \* register: 1-second sleeps taken by the current call
    regResult,    \* register: [how, err] of the finished call
    cpc,          \* callFunction: "idle", "headers", "body", "done"
    callSent,     \* callFunction: requests sent by the current call
    timerArmed,   \* callFunction: the 10-second timer is running
    elapsed,      \* callFunction: seconds since the request was sent
    callCause,    \* callFunction: what ended the request, as the host saw it
    callResult    \* callFunction: [how, value, err] of the finished call

vars == <<variant, mode, apiKey, args, probeScript, regScript, callScript,
          sdk, handle, dpc, didx, probes,
          rpc, ri, lastErr, regPayload, regSent, regDelays, regResult,
          cpc, callSent, timerArmed, elapsed, callCause, callResult>>

envVars  == <<variant, mode, apiKey, args, probeScript, regScript, callScript>>
discVars == <<dpc, didx, probes>>
regVars  == <<rpc, ri, lastErr, regPayload, regSent, regDelays, regResult>>
callVars == <<cpc, callSent, timerArmed, elapsed, callCause, callResult>>

(***************************************************************************)
(* Program constants                                                       *)
(***************************************************************************)
Variants == {"go", "goOld", "ts"}

urls == << "http://localhost:8080/v1/super",
           "http://host.docker.internal:8080/v1/super" >>

DefaultURL == "http://localhost:8080/v1/super"

MaxAttempts == 3

CallTimeoutSec == 10

StatusOK == 200

(***************************************************************************)
(* Bounds of the model                                                     *)
(***************************************************************************)
MaxElapsed == 12

ScriptLen == MaxAttempts + 1

MaxURLLen == 3

(***************************************************************************)
(* Host outcomes and errors, as records of one shape                       *)
(***************************************************************************)
NetErr(d) == [kind |-> "neterr", err |-> d, status |-> 0, body |-> ""]

Resp(s, b) == [kind |-> "resp", err |-> "", status |-> s, body |-> b]

Stall == [kind |-> "stall", err |-> "", status |-> 0, body |-> ""]

NoErr == [kind |-> "nil", status |-> 0, body |-> "", detail |-> ""]

Err(k, s, b, d) == [kind |-> k, status |-> s, body |-> b, detail |-> d]

\* fetch's response.ok
ResponseOk(s) == s >= 200 /\ s <= 299


(***************************************************************************)
(* The environment a behaviour starts from                                 *)
(***************************************************************************)
NoSDK == [exists |-> FALSE, APIKey |-> "", BaseURL |-> ""]

NoValue == [json |-> "none", text |-> ""]

NoResult == [how |-> "none", value |-> NoValue, err |-> NoErr]

ModesOf(v) == IF v = "ts" THEN {"factory", "separate"} ELSE {"factory"}

\* The state before the client is created, under a host and inputs drawn
\* from the given sets.
InitWith(V, Keys, Args, PS, RS, CS) ==
    /\ variant \in V
    /\ mode \in ModesOf(variant)
    /\ apiKey \in Keys
    /\ args \in Args
    /\ probeScript \in PS
    /\ regScript \in RS
    /\ callScript \in CS
    /\ sdk = NoSDK
    /\ handle = FALSE
    /\ dpc = "idle" /\ didx = 1 /\ probes = <<>>
    /\ rpc = "idle" /\ ri = 0 /\ lastErr = NoErr
    /\ regPayload = [appName |-> "", functions |-> <<>>, url |-> <<>>, hasUrl |-> FALSE]
    /\ regSent = <<>> /\ regDelays = 0
    /\ regResult = [how |-> "none", err |-> NoErr]
    /\ cpc = "idle" /\ callSent = <<>> /\ timerArmed = FALSE /\ elapsed = 0
    /\ callCause = "none"
    /\ callResult = NoResult

(***************************************************************************)
(* Endpoint discovery: NewSuperAppSDK (go), initialize / create (ts)       *)
(***************************************************************************)
\* A mutant: the reachability test of the other kind in each variant.
ProbeSucceedsSwapped(v, o) ==
    IF v = "ts" THEN o.kind = "resp"
                ELSE o.kind = "resp" /\ ResponseOk(o.status)

\* go: err == nil.  ts: the fetch did not throw and response.ok.
ProbeSucceeds(v, o) ==
    IF v = "ts" THEN o.kind = "resp" /\ ResponseOk(o.status)
                ELSE o.kind = "resp"

\* A mutant: the fallback is the last candidate tried.
FallbackURLLastTried(v) == urls[Len(urls)]

\* The URL adopted after the loop has tried every candidate.
FallbackURL(v) == DefaultURL

\* One iteration of the loop over urls, after the probe of urls[idx] ended
\* with outcome o: return the candidate, go on, or fall back (base is the
\* field as it stands, kept while the loop goes on).
ProbeLoop(v, idx, o, base) ==
    IF ProbeSucceeds(v, o)
    THEN [done |-> TRUE, idx |-> idx, base |-> urls[idx]]
    ELSE IF idx < Len(urls)
         THEN [done |-> FALSE, idx |-> idx + 1, base |-> base]
         ELSE [done |-> TRUE, idx |-> idx, base |-> FallbackURL(v)]

\* go: NewSuperAppSDK(apiKey) is entered; the instance exists when it returns.
NewSuperAppSDK ==
    /\ variant \in {"go", "goOld"}
    /\ ~sdk.exists /\ dpc = "idle"
    /\ dpc' = "send" /\ didx' = 1 /\ probes' = <<>>
    /\ UNCHANGED <<envVars, sdk, handle, regVars, callVars>>

\* ts: new SuperAppSDK(apiKey); the caller holds an instance with baseURL "".
Construct ==
    /\ variant = "ts" /\ mode = "separate"
    /\ ~sdk.exists
    /\ sdk' = [exists |-> TRUE, APIKey |-> apiKey, BaseURL |-> ""]
    /\ handle' = TRUE
    /\ UNCHANGED <<envVars, discVars, regVars, callVars>>

\* ts: SuperAppSDK.create(apiKey): the constructor, then initialize(); the
\* caller gets the instance when the promise resolves.
Create ==
    /\ variant = "ts" /\ mode = "factory"
    /\ ~sdk.exists /\ dpc = "idle"
    /\ sdk' = [exists |-> TRUE, APIKey |-> apiKey, BaseURL |-> ""]
    /\ dpc' = "send" /\ didx' = 1 /\ probes' = <<>>
    /\ UNCHANGED <<envVars, handle, regVars, callVars>>

\* ts: sdk.initialize() called by the holder of the instance.
Initialize ==
    /\ variant = "ts" /\ handle
    /\ dpc \in {"idle", "done"}
    /\ dpc' = "send" /\ didx' = 1 /\ probes' = <<>>
    /\ UNCHANGED <<envVars, sdk, handle, regVars, callVars>>

\* GET urls[didx] + "/list" is sent.
ProbeSend ==
    /\ dpc = "send"
    /\ probes' = Append(probes, [base |-> urls[didx], path |-> "/list"])
    /\ dpc' = "wait"
    /\ UNCHANGED <<envVars, sdk, handle, didx, regVars, callVars>>

\* The probe ends (a response, a network error or the 1-second timeout)
\* and the loop goes on from there.
ProbeRecv ==
    /\ dpc = "wait"
    /\ LET r == ProbeLoop(variant, didx, probeScript[didx], sdk.BaseURL) IN
         /\ didx' = r.idx
         /\ IF r.done
            THEN /\ dpc' = "done"
                 /\ sdk' = [exists |-> TRUE, APIKey |-> apiKey, BaseURL |-> r.base]
                 /\ handle' = TRUE
            ELSE /\ dpc' = "send"
                 /\ UNCHANGED <<sdk, handle>>
    /\ UNCHANGED <<envVars, probes, regVars, callVars>>

NextDiscovery ==
    \/ NewSuperAppSDK
    \/ Construct
    \/ Create
    \/ Initialize
    \/ ProbeSend
    \/ ProbeRecv

(***************************************************************************)
(* Registration: Register / register                                       *)
(***************************************************************************)
\* Removes one trailing slash: the if at the head of Register.
StripSlash(u) ==
    IF Len(u) > 0 /\ u[Len(u)] = "/" THEN SubSeq(u, 1, Len(u) - 1) ELSE u

\* The payload built before the loop.  goOld's Register has no appURL.
BuildPayload(v, a) ==
    IF v = "goOld"
    THEN [appName |-> a.appName, functions |-> a.functions,
          url |-> <<>>, hasUrl |-> FALSE]
    ELSE [appName |-> a.appName, functions |-> a.functions,
          url |-> StripSlash(a.appURL), hasUrl |-> TRUE]

\* The test that ends the loop with success.
\* go: resp.StatusCode == http.StatusOK.  ts: response.ok.
RegisterOk(v, s) == IF v = "ts" THEN ResponseOk(s) ELSE s = StatusOK

\* The error an attempt that ended with outcome o leaves in lastErr.
AttemptError(v, o) ==
    IF o.kind = "neterr"
    THEN Err("transport", 0, "", o.err)
    ELSE Err("status", o.status, o.body, "")

\* What a finished call hands to its caller: go returns lastErr (nil on
\* success), ts returns or throws lastError.
RegisterReturn(v, ok, e) ==
    IF ok THEN [how |-> "return", err |-> NoErr]
    ELSE [how |-> IF v = "ts" THEN "throw" ELSE "return", err |-> e]

\* A mutant: a successful attempt does not leave the loop; success is
\* returned when the loop ends.
RegisterAttemptNoEarlyReturn(v, i, o, last) ==
    IF o.kind = "resp" /\ RegisterOk(v, o.status)
    THEN [done |-> ~(i + 1 < MaxAttempts), i |-> i + 1, lastErr |-> NoErr, delay |-> 0,
          result |-> RegisterReturn(v, TRUE, NoErr)]
    ELSE LET e == AttemptError(v, o) IN
         [done |-> ~(i + 1 < MaxAttempts), i |-> i + 1, lastErr |-> e,
          delay |-> 1, result |-> RegisterReturn(v, FALSE, e)]

\* A mutant: lastErr keeps the first error seen.
RegisterAttemptKeepsFirstError(v, i, o, last) ==
    IF o.kind = "resp" /\ RegisterOk(v, o.status)
    THEN [done |-> TRUE, i |-> i, lastErr |-> last, delay |-> 0,
          result |-> RegisterReturn(v, TRUE, last)]
    ELSE LET e == IF last = NoErr THEN AttemptError(v, o) ELSE last IN
         [done |-> ~(i + 1 < MaxAttempts), i |-> i + 1, lastErr |-> e,
          delay |-> 1, result |-> RegisterReturn(v, FALSE, e)]

\* A mutant: no sleep after the last attempt.
RegisterAttemptNoFinalSleep(v, i, o, last) ==
    IF o.kind = "resp" /\ RegisterOk(v, o.status)
    THEN [done |-> TRUE, i |-> i, lastErr |-> last, delay |-> 0,
          result |-> RegisterReturn(v, TRUE, last)]
    ELSE LET e == AttemptError(v, o) IN
         [done |-> ~(i + 1 < MaxAttempts), i |-> i + 1, lastErr |-> e,
          delay |-> IF i + 1 < MaxAttempts THEN 1 ELSE 0,
          result |-> RegisterReturn(v, FALSE, e)]

\* A mutant: the counter is not advanced after a transport error.
RegisterAttemptStuckOnError(v, i, o, last) ==
    IF o.kind = "resp" /\ RegisterOk(v, o.status)
    THEN [done |-> TRUE, i |-> i, lastErr |-> last, delay |-> 0,
          result |-> RegisterReturn(v, TRUE, last)]
    ELSE LET e == AttemptError(v, o)
             j == IF o.kind = "neterr" THEN i ELSE i + 1
         IN  [done |-> ~(j < MaxAttempts), i |-> j, lastErr |-> e,
              delay |-> 1, result |-> RegisterReturn(v, FALSE, e)]

\* One iteration of the retry loop, after attempt i+1 ended with outcome o:
\* the new counter, lastErr, the sleep taken, and whether the call ends.
RegisterAttempt(v, i, o, last) ==
    IF o.kind = "resp" /\ RegisterOk(v, o.status)
    THEN [done |-> TRUE, i |-> i, lastErr |-> last, delay |-> 0,
          result |-> RegisterReturn(v, TRUE, last)]
    ELSE LET e == AttemptError(v, o) IN
         [done |-> ~(i + 1 < MaxAttempts), i |-> i + 1, lastErr |-> e,
          delay |-> 1, result |-> RegisterReturn(v, FALSE, e)]

\* sdk.Register(appName, functions, appURL) is called.
RegisterStart ==
    /\ handle
    /\ rpc \in {"idle", "done"}
    /\ regPayload' = BuildPayload(variant, args)
    /\ ri' = 0 /\ lastErr' = NoErr
    /\ regSent' = <<>> /\ regDelays' = 0
    /\ regResult' = [how |-> "none", err |-> NoErr]
    /\ rpc' = "send"
    /\ UNCHANGED <<envVars, sdk, handle, discVars, callVars>>

\* POST sdk.BaseURL + "/register" is sent.
RegisterSend ==
    /\ rpc = "send"
    /\ regSent' = Append(regSent, [base |-> sdk.BaseURL, path |-> "/register",
                                   contentType |-> "application/json",
                                   payload |-> regPayload])
    /\ rpc' = "wait"
    /\ UNCHANGED <<envVars, sdk, handle, discVars, callVars,
                   ri, lastErr, regPayload, regDelays, regResult>>

\* The attempt ends with the host's outcome; the rest of the iteration runs.
\* http.Post and fetch are called without a timeout: they block until the
\* request completes.
RegisterRecv ==
    /\ rpc = "wait"
    /\ regScript[ri + 1].kind # "stall"
    /\ LET r == RegisterAttempt(variant, ri, regScript[ri + 1], lastErr) IN
         /\ ri' = r.i
         /\ lastErr' = r.lastErr
         /\ regDelays' = regDelays + r.delay
         /\ IF r.done
            THEN rpc' = "done" /\ regResult' = r.result
            ELSE rpc' = "send" /\ UNCHANGED regResult
    /\ UNCHANGED <<envVars, sdk, handle, discVars, callVars, regPayload, regSent>>

NextRegister ==
    \/ RegisterStart
    \/ RegisterSend
    \/ RegisterRecv

(***************************************************************************)
(* Remote invocation: CallFunction / callFunction                          *)
(***************************************************************************)
\* The arguments of the call.  The payload is a mapping of JSON values, which
\* json.Marshal / JSON.stringify always encodes.
CallArgs == [url |-> "http://app2.test", caller |-> "app1", targetApp |-> "app2",
             functionName |-> "fn", payload |-> "{\"x\": 1}"]

\* The request body.  goOld's CallFunction also sends its url argument.
BuildRequestBody(v, a) ==
    [hasUrl |-> (v = "goOld"), url |-> IF v = "goOld" THEN a.url ELSE "",
     caller |-> a.caller, targetApp |-> a.targetApp,
     functionName |-> a.functionName, payload |-> a.payload]

\* What kind of JSON text a body is.
JSONKind(b) ==
    CASE b = "{\"result\": 42}" -> "object"
      [] b = "{}"               -> "object"
      [] b = "[1]"              -> "array"
      [] b = "null"             -> "null"
      [] b = "42"               -> "number"
      [] OTHER                  -> "invalid"

\* go: json.Unmarshal(body, &result) with result a map[string]interface{}.
\* ts: JSON.parse(responseText).
Decode(v, b) ==
    LET k == JSONKind(b) IN
    IF v = "ts"
    THEN IF k = "invalid"
         THEN [ok |-> FALSE, value |-> NoValue]
         ELSE [ok |-> TRUE, value |-> [json |-> k, text |-> b]]
    ELSE IF k = "object" THEN [ok |-> TRUE, value |-> [json |-> k, text |-> b]]
         ELSE IF k = "null" THEN [ok |-> TRUE, value |-> [json |-> "nil", text |-> ""]]
         ELSE [ok |-> FALSE, value |-> NoValue]

\* The test on the status of the response.
\* go: resp.StatusCode != http.StatusOK fails.  ts: !response.ok fails.
CallOk(v, s) == IF v = "ts" THEN ResponseOk(s) ELSE s = StatusOK

Fail(v, e) ==
    [how |-> IF v = "ts" THEN "throw" ELSE "return", value |-> NoValue, err |-> e]

\* A mutant: the body is decoded before the status is looked at.
CallOutcomeDecodeFirst(v, s, b) ==
    LET d == Decode(v, b) IN
    IF ~d.ok THEN Fail(v, Err("decode", 0, "", ""))
    ELSE IF ~CallOk(v, s) THEN Fail(v, Err("status", s, b, ""))
    ELSE [how |-> "return", value |-> d.value, err |-> NoErr]

\* A mutant: a body that does not decode is reported like a bad status.
CallOutcomeDecodeAsStatus(v, s, b) ==
    IF ~CallOk(v, s)
    THEN Fail(v, Err("status", s, b, ""))
    ELSE LET d == Decode(v, b) IN
         IF d.ok THEN [how |-> "return", value |-> d.value, err |-> NoErr]
         ELSE Fail(v, Err("status", s, b, ""))

\* The end of the call once status s and the whole body b are there.
CallOutcome(v, s, b) ==
    IF ~CallOk(v, s)
    THEN Fail(v, Err("status", s, b, ""))
    ELSE LET d == Decode(v, b) IN
         IF d.ok THEN [how |-> "return", value |-> d.value, err |-> NoErr]
         ELSE Fail(v, Err("decode", 0, "", ""))

\* The end of the call when the request fails with network error d before a
\* response is there.  go: "error calling function: %v".  ts: the error of
\* fetch, rethrown.
CallTransportError(v, d) ==
    IF v = "ts" THEN Fail(v, Err("transport", 0, "", d))
                ELSE Fail(v, Err("calling", 0, "", d))

\* The end of the call when reading the body fails with network error d.
\* go: "error reading response body: %v".  ts: the error of text(), rethrown.
CallReadError(v, d) ==
    IF v = "ts" THEN Fail(v, Err("transport", 0, "", d))
                ELSE Fail(v, Err("reading", 0, "", d))

\* The end of the call when the timer expires in phase pc.
\* go: the client's Timeout fails Do or ReadAll with a timeout error, which
\* is formatted like any other.  ts: the abort makes fetch throw an
\* AbortError, replaced by "Request timed out after 10 seconds".
CallTimedOut(v, pc) ==
    IF v = "ts" THEN Fail(v, Err("timeout", 0, "", "timeout"))
    ELSE IF pc = "headers" THEN CallTransportError(v, "timeout")
                           ELSE CallReadError(v, "timeout")

\* Whether the timer keeps running once the response headers are there.
\* go: Client.Timeout covers reading the body.  ts: clearTimeout(timeoutId).
TimerCoversBody(v) == v # "ts"

\* A mutant: the request carries the API key in an authorization header.
CallFunctionWithKey ==
    /\ handle
    /\ cpc \in {"idle", "done"}
    /\ callSent' = <<[base |-> sdk.BaseURL, path |-> "/call-function",
                      contentType |-> "application/json",
                      authorization |-> sdk.APIKey,
                      body |-> BuildRequestBody(variant, CallArgs)]>>
    /\ timerArmed' = TRUE /\ elapsed' = 0
    /\ callCause' = "none" /\ callResult' = NoResult
    /\ cpc' = "headers"
    /\ UNCHANGED <<envVars, sdk, handle, discVars, regVars>>

\* sdk.CallFunction(...) is called: the request is built and sent, the timer starts.
CallFunction ==
    /\ handle
    /\ cpc \in {"idle", "done"}
    /\ callSent' = <<[base |-> sdk.BaseURL, path |-> "/call-function",
                      contentType |-> "application/json",
                      body |-> BuildRequestBody(variant, CallArgs)]>>
    /\ timerArmed' = TRUE /\ elapsed' = 0
    /\ callCause' = "none" /\ callResult' = NoResult
    /\ cpc' = "headers"
    /\ UNCHANGED <<envVars, sdk, handle, discVars, regVars>>

\* A second passes while the call is pending; a running timer does not let
\* time pass beyond its expiry.
Tick ==
    /\ cpc \in {"headers", "body"}
    /\ elapsed < MaxElapsed
    /\ timerArmed => elapsed < CallTimeoutSec
    /\ elapsed' = elapsed + 1
    /\ UNCHANGED <<envVars, sdk, handle, discVars, regVars,
                   cpc, callSent, timerArmed, callCause, callResult>>

\* The timer expires and cancels the request.
CallTimeout ==
    /\ cpc \in {"headers", "body"}
    /\ timerArmed /\ elapsed >= CallTimeoutSec
    /\ callResult' = CallTimedOut(variant, cpc)
    /\ callCause' = "timeout"
    /\ timerArmed' = FALSE
    /\ cpc' = "done"
    /\ UNCHANGED <<envVars, sdk, handle, discVars, regVars, callSent, elapsed>>

\* A mutant: a request that fails with a network error is sent again, up to
\* MaxAttempts times.
CallRecvHeadersRetry ==
    /\ cpc = "headers"
    /\ callScript.hdr.kind # "stall"
    /\ IF callScript.hdr.kind = "neterr" /\ Len(callSent) < MaxAttempts
       THEN /\ callSent' = Append(callSent, callSent[1])
            /\ UNCHANGED <<callResult, callCause, timerArmed, cpc>>
       ELSE IF callScript.hdr.kind = "neterr"
       THEN /\ callResult' = CallTransportError(variant, callScript.hdr.err)
            /\ callCause' = "transport"
            /\ timerArmed' = FALSE
            /\ cpc' = "done"
            /\ UNCHANGED callSent
       ELSE /\ timerArmed' = TimerCoversBody(variant)
            /\ cpc' = "body"
            /\ UNCHANGED <<callResult, callCause, callSent>>
    /\ UNCHANGED <<envVars, sdk, handle, discVars, regVars, elapsed>>

\* The request fails, or the status line and headers of the response arrive.
CallRecvHeaders ==
    /\ cpc = "headers"
    /\ callScript.hdr.kind # "stall"
    /\ IF callScript.hdr.kind = "neterr"
       THEN /\ callResult' = CallTransportError(variant, callScript.hdr.err)
            /\ callCause' = "transport"
            /\ timerArmed' = FALSE
            /\ cpc' = "done"
       ELSE /\ timerArmed' = TimerCoversBody(variant)
            /\ cpc' = "body"
            /\ UNCHANGED <<callResult, callCause>>
    /\ UNCHANGED <<envVars, sdk, handle, discVars, regVars, callSent, elapsed>>

\* Reading the body fails, or the whole body has arrived: the call ends.
CallRecvBody ==
    /\ cpc = "body"
    /\ callScript.body.kind # "stall"
    /\ IF callScript.body.kind = "neterr"
       THEN /\ callResult' = CallReadError(variant, callScript.body.err)
            /\ callCause' = "transport"
       ELSE /\ callResult' = CallOutcome(variant, callScript.hdr.status,
                                         callScript.body.body)
            /\ callCause' = "response"
    /\ timerArmed' = FALSE
    /\ cpc' = "done"
    /\ UNCHANGED <<envVars, sdk, handle, discVars, regVars, callSent, elapsed>>

NextCall ==
    \/ CallFunction
    \/ Tick
    \/ CallTimeout
    \/ CallRecvHeaders
    \/ CallRecvBody

(***************************************************************************)
(* Hosts and inputs                                                        *)
(***************************************************************************)
ProbeOutcomes ==
    {NetErr("refused"), NetErr("timeout"), Resp(200, ""), Resp(404, ""), Resp(500, "")}

ProbeScripts == [1..Len(urls) -> ProbeOutcomes]

SomeProbeScripts ==
    { <<NetErr("refused"), NetErr("timeout")>>,
      <<Resp(200, ""), NetErr("refused")>>,
      <<NetErr("timeout"), Resp(500, "")>> }

RegOutcomes ==
    {NetErr("refused"), Resp(200, "ok"), Resp(201, "ok"), Resp(500, "a"), Resp(500, "b")}

\* The host's answers to the attempts of one register call; an answer
\* beyond the last attempt is never asked for.
RegScripts ==
    {s \in [1..ScriptLen -> RegOutcomes] :
        \A i \in 1..ScriptLen : i > MaxAttempts => s[i] = NetErr("refused")}

SomeRegScripts ==
    { <<NetErr("refused"), Resp(500, "a"), Resp(200, "ok"), NetErr("refused")>>,
      <<Resp(500, "a"), NetErr("refused"), Resp(500, "b"), NetErr("refused")>>,
      <<Resp(201, "ok"), Resp(200, "ok"), Resp(200, "ok"), NetErr("refused")>> }

\* Attempt outcomes of a host that may also never complete a request.
RegOutcomesOrStall == {NetErr("refused"), Resp(200, "ok"), Resp(500, "a"), Stall}

RegScriptsOrStall ==
    {s \in [1..ScriptLen -> RegOutcomesOrStall] :
        \A i \in 1..ScriptLen : i > MaxAttempts => s[i] = NetErr("refused")}

CallStatuses == {200, 201, 404, 500}

CallBodies == {"{\"result\": 42}", "not-json", "[1]", "null", "internal error"}

CallScripts ==
    [hdr  : {NetErr("refused"), Stall} \cup {Resp(s, "") : s \in CallStatuses},
     body : {NetErr("reset"), Stall} \cup {Resp(0, b) : b \in CallBodies}]

SomeCallScripts ==
    { [hdr |-> Resp(200, ""), body |-> Resp(0, "{\"result\": 42}")],
      [hdr |-> Resp(500, ""), body |-> Resp(0, "internal error")],
      [hdr |-> NetErr("refused"), body |-> Stall],
      [hdr |-> Stall, body |-> Stall],
      [hdr |-> Resp(200, ""), body |-> NetErr("reset")] }

SomeArgs ==
    { [appName |-> "app1", functions |-> <<"fn">>, appURL |-> u] :
        u \in { <<"h">>, <<"h", "/">> } }

(***************************************************************************)
(* Specifications                                                          *)
(***************************************************************************)
\* The whole client: discovery, registration and invocation interleaved.
Init == InitWith(Variants, {"k1"}, SomeArgs, SomeProbeScripts, SomeRegScripts, SomeCallScripts)

Next ==
    \/ NextDiscovery
    \/ NextRegister
    \/ NextCall

Spec == Init /\ [][Next]_vars

\* Discovery against every host.
InitDiscovery ==
    InitWith(Variants, {"k1"}, SomeArgs, ProbeScripts,
             {<<Resp(200, "ok"), Resp(200, "ok"), Resp(200, "ok"), NetErr("refused")>>},
             {[hdr |-> Stall, body |-> Stall]})

SpecDiscovery == InitDiscovery /\ [][NextDiscovery]_vars

\* Registration against every host, after a discovery.
InitRegister ==
    InitWith(Variants, {"k1"}, SomeArgs, SomeProbeScripts, RegScripts,
             {[hdr |-> Stall, body |-> Stall]})

NextDiscoveryRegister ==
    \/ NextDiscovery
    \/ NextRegister

SpecRegister == InitRegister /\ [][NextDiscoveryRegister]_vars

\* Registration against hosts that may leave a request without an answer.
\* The client takes its next step when it can, and a request that the host
\* completes is completed eventually.
InitRegisterFair ==
    InitWith(Variants, {"k1"}, SomeArgs, SomeProbeScripts, RegScriptsOrStall,
             {[hdr |-> Stall, body |-> Stall]})

SpecRegisterFair ==
    /\ InitRegisterFair
    /\ [][NextDiscoveryRegister]_vars
    /\ WF_vars(RegisterSend)
    /\ WF_vars(RegisterRecv)

\* Invocation against every host, after a discovery.
InitCall ==
    InitWith(Variants, {"k1"}, SomeArgs, SomeProbeScripts,
             {<<Resp(200, "ok"), Resp(200, "ok"), Resp(200, "ok"), NetErr("refused")>>},
             CallScripts)

NextDiscoveryCall ==
    \/ NextDiscovery
    \/ NextCall

SpecCall == InitCall /\ [][NextDiscoveryCall]_vars

(***************************************************************************)
(* Properties of discovery                                                 *)
(***************************************************************************)
\* The number of probes of the current run that have ended.
Answered == IF dpc = "wait" THEN Len(probes) - 1 ELSE Len(probes)

\* A candidate is reachable when its probe gets a response, of any status.
Reachable(i) == probeScript[i].kind = "resp"

Unreachable(i) == probeScript[i].kind = "neterr"

\* C3: a probe that gets a response of any status makes discovery adopt that
\* candidate as baseURL and stop; discovery moves on to the next candidate
\* only after a network error or timeout.
C3_AnyResponseIsReachable ==
    \A i \in 1..Answered :
        /\ Reachable(i) =>
              /\ dpc = "done"
              /\ sdk.BaseURL = urls[i]
              /\ Len(probes) = i
        /\ i < Len(probes) => Unreachable(i)

\* C4: when every probe ends in a network error or timeout, initialization
\* completes, the caller holds a client whose baseURL is the default, and no
\* finished discovery leaves baseURL empty; a discovery under way can always
\* take its next step.
C4_FallbackToDefault ==
    /\ (dpc = "done" /\ \A i \in 1..Len(urls) : Unreachable(i)) =>
          /\ sdk.exists /\ handle
          /\ sdk.BaseURL = DefaultURL
          /\ sdk.BaseURL = "http://localhost:8080/v1/super"
          /\ Len(probes) = Len(urls)
    /\ dpc = "done" =>
          /\ sdk.exists /\ handle
          /\ sdk.BaseURL # ""
          /\ sdk.BaseURL \in {urls[i] : i \in 1..Len(urls)}
    /\ dpc \in {"send", "wait"} => ENABLED (ProbeSend \/ ProbeRecv)

C4_Witness ==
    /\ dpc = "done"
    /\ \A i \in 1..Len(urls) : Unreachable(i)
    /\ Len(probes) = Len(urls)
    /\ sdk.BaseURL = DefaultURL

\* C5: candidates are probed one at a time in list order, the second probe
\* starts only after the first has failed, a reachable first candidate means
\* the second is never probed, and the adopted baseURL is the first reachable
\* candidate in list order.
C5_OrderAndShortCircuit ==
    /\ \A i \in 1..Len(probes) : probes[i].base = urls[i] /\ probes[i].path = "/list"
    /\ Len(probes) <= Answered + 1
    /\ \A i \in 1..Len(probes) : i > 1 => Unreachable(i - 1)
    /\ Reachable(1) => Len(probes) <= 1
    /\ \A i \in 1..Len(urls) :
          (dpc = "done" /\ Reachable(i) /\ \A j \in 1..(i - 1) : Unreachable(j))
              => sdk.BaseURL = urls[i]

(***************************************************************************)
(* Properties of registration                                              *)
(***************************************************************************)
\* The statuses that count as success: 200 ("OK"); for the TypeScript
\* variant every 2xx status.  On the other 2xx statuses the variants differ.
SuccessStatus(st) ==
    IF variant = "ts" THEN st \in 200..299 ELSE st = 200

\* Attempt k gets a response with a success status.
AttemptSucceeds(k) ==
    regScript[k].kind = "resp" /\ SuccessStatus(regScript[k].status)

\* Attempt k fails: a transport error or a status that is no success.
AttemptFails(k) == ~AttemptSucceeds(k)

RegisterSucceeded == regResult.how = "return" /\ regResult.err = NoErr

RegisterFailed ==
    /\ regResult.how = (IF variant = "ts" THEN "throw" ELSE "return")
    /\ regResult.err # NoErr

\* C1: when attempts 1..k-1 fail (by transport error or by status, in any
\* mix) and attempt k gets a success status, register returns success after
\* exactly k requests to <baseURL>/register, and no request is ever sent
\* after the first successful attempt.
C1_RetryThenSucceed ==
    \A k \in 1..3 :
        (AttemptSucceeds(k) /\ \A j \in 1..(k - 1) : AttemptFails(j)) =>
            /\ Len(regSent) <= k
            /\ \A n \in 1..Len(regSent) : regSent[n].path = "/register"
            /\ rpc = "done" => (RegisterSucceeded /\ Len(regSent) = k)
            /\ Len(regSent) = k /\ rpc # "wait" => rpc = "done"

C1_Witness ==
    /\ rpc = "done"
    /\ regScript[1].kind = "neterr"
    /\ regScript[2].kind = "resp" /\ AttemptFails(2)
    /\ AttemptSucceeds(3)
    /\ RegisterSucceeded
    /\ Len(regSent) = 3

\* C2: when every attempt fails, register sends exactly 3 requests, never a
\* 4th, and ends with the error of the 3rd attempt; it does not end in
\* success or without an error.
C2_RetryExhaustion ==
    /\ Len(regSent) <= 3
    /\ (\A j \in 1..3 : AttemptFails(j)) =>
          /\ rpc \in {"send", "wait"} => Len(regSent) <= 3 /\ ri < 3
          /\ rpc = "done" =>
                /\ Len(regSent) = 3
                /\ RegisterFailed
                /\ ~RegisterSucceeded
                /\ regResult.err.kind =
                      (IF regScript[3].kind = "neterr" THEN "transport" ELSE "status")
                /\ regResult.err.detail = regScript[3].err
                /\ regResult.err.status = regScript[3].status
                /\ regResult.err.body = regScript[3].body

C2_Witness ==
    /\ rpc = "done"
    /\ \A j \in 1..3 : AttemptFails(j)
    /\ regScript[3] # regScript[1] /\ regScript[3] # regScript[2]
    /\ regScript[1].kind # regScript[2].kind
    /\ Len(regSent) = 3
    /\ RegisterFailed

(***************************************************************************)
(* Properties of the client's life                                         *)
(***************************************************************************)
\* The requests sent by the register and callFunction calls under way or
\* last finished, each with the baseURL it was sent to.
RequestBases ==
    {regSent[n].base : n \in 1..Len(regSent)} \cup
    {callSent[n].base : n \in 1..Len(callSent)}

\* C6: no register or callFunction request is sent before discovery has
\* completed: every such request targets a non-empty baseURL that discovery
\* has set, one of the two candidates.
C6_DiscoveryBeforeRequests ==
    \A b \in RequestBases : b # "" /\ b \in {urls[i] : i \in 1..Len(urls)}

(***************************************************************************)
(* Properties of invocation                                                *)
(***************************************************************************)
CallPending == cpc \in {"headers", "body"}

CallFailed ==
    /\ callResult.how = (IF variant = "ts" THEN "throw" ELSE "return")
    /\ callResult.err # NoErr
    /\ callResult.value = NoValue

\* C7: one 10-second timer bounds the call from the sending of the request
\* to the arrival of the whole body: the call is never pending after 10
\* seconds, also when the headers are there and the body is not, and a call
\* the timer ends fails with the timeout error.
C7_TimeoutCoversRoundTrip ==
    /\ CallPending => elapsed <= 10
    /\ (cpc = "done" /\ callCause = "timeout") =>
          /\ CallFailed
          /\ callResult.err.kind = "timeout" \/ callResult.err.detail = "timeout"

\* The kinds of error a transport failure other than a timeout ends in.
TransportFailureKinds ==
    {CallTransportError(variant, d).err.kind : d \in {"refused", "dns"}} \cup
    {CallReadError(variant, d).err.kind : d \in {"reset"}}

\* C8: a call that exceeds its 10-second timeout ends in an error of a kind
\* that no other transport failure produces.
C8_TimeoutIsDistinct ==
    /\ (cpc = "done" /\ callCause = "timeout") =>
          /\ CallFailed
          /\ callResult.err.kind \notin TransportFailureKinds
    /\ (cpc = "done" /\ callCause = "transport") =>
          callResult.err.kind \in TransportFailureKinds

\* C9: a call sends exactly one POST to <baseURL>/call-function, whatever
\* its outcome, and never sends the request again.
C9_SingleAttempt ==
    /\ Len(callSent) <= 1
    /\ cpc # "idle" =>
          /\ Len(callSent) = 1
          /\ callSent[1].path = "/call-function"
          /\ callSent[1].contentType = "application/json"
    /\ cpc = "done" =>
          /\ callCause \in {"transport", "timeout", "response"}
          /\ callResult.how # "none"

C9_Witness ==
    /\ cpc = "done"
    /\ callCause = "transport"
    /\ callScript.hdr.kind = "neterr"
    /\ CallFailed
    /\ Len(callSent) = 1

\* C10: a response whose status is no success status, with any body, makes
\* the call fail with a status error carrying the status code and the raw
\* body; the call returns no result and reports no decode error.
C10_NonSuccessStatus ==
    (/\ cpc = "done"
     /\ callCause = "response"
     /\ ~SuccessStatus(callScript.hdr.status)) =>
        /\ CallFailed
        /\ callResult.err.kind = "status"
        /\ callResult.err.kind # "decode"
        /\ callResult.err.status = callScript.hdr.status
        /\ callResult.err.body = callScript.body.body

C10_Witness ==
    /\ cpc = "done"
    /\ callCause = "response"
    /\ callScript.hdr.status = 500
    /\ callScript.body.body = "not-json"
    /\ callResult.err.kind = "status"
    /\ callResult.err.status = 500
    /\ callResult.err.body = "not-json"

\* The kinds of error a timeout ends in.
TimeoutKinds == {CallTimedOut(variant, pc).err.kind : pc \in {"headers", "body"}}

\* The bodies of the hosts that are not JSON texts.
NotJSON == {"not-json", "internal error"}

\* The bodies of the hosts that are JSON objects.
JSONObjects == {"{\"result\": 42}"}

\* C11: a response with a success status whose body is not valid JSON makes
\* the call fail with a decode error, of a kind other than those of the
\* transport, timeout and status errors, and no result is returned.
C11_MalformedResponse ==
    (/\ cpc = "done"
     /\ callCause = "response"
     /\ SuccessStatus(callScript.hdr.status)
     /\ callScript.body.body \in NotJSON) =>
        /\ CallFailed
        /\ callResult.err.kind = "decode"
        /\ callResult.err.kind \notin TransportFailureKinds
        /\ callResult.err.kind \notin TimeoutKinds
        /\ callResult.err.kind # "status"

C11_Witness ==
    /\ cpc = "done"
    /\ callCause = "response"
    /\ callScript.hdr.status = 200
    /\ callScript.body.body = "not-json"
    /\ callResult.err.kind = "decode"
    /\ callResult.value = NoValue

CallSucceeded == callResult.how = "return" /\ callResult.err = NoErr

\* C12: a response of status 200 whose body is a JSON object makes the call
\* return that object; and the result of every call that returns success is
\* a JSON object, never an array, number, string, boolean or null.
C12_RoundTrip ==
    /\ (/\ cpc = "done"
        /\ callCause = "response"
        /\ callScript.hdr.status = 200
        /\ callScript.body.body \in JSONObjects) =>
           /\ CallSucceeded
           /\ callResult.value = [json |-> "object", text |-> callScript.body.body]
    /\ (cpc = "done" /\ CallSucceeded) => callResult.value.json = "object"

\* C13: in every variant a register attempt is successful exactly when the
\* status of its response is 200; a response of any other status, 201
\* included, is a failed attempt: it is retried, and when it is the last
\* attempt its status error is the result.
C13_SuccessIsExactly200 ==
    /\ \A n \in 1..3 :
          (regScript[n].kind = "resp" /\ regScript[n].status # 200) =>
              /\ (rpc = "done" /\ Len(regSent) = n /\ n < 3) => FALSE
              /\ (rpc = "done" /\ Len(regSent) = n /\ n = 3) =>
                    /\ RegisterFailed
                    /\ regResult.err.kind = "status"
                    /\ regResult.err.status = regScript[n].status
    /\ \A n \in 1..3 :
          (regScript[n].kind = "resp" /\ regScript[n].status = 200
             /\ Len(regSent) = n /\ rpc \notin {"send", "wait"}) =>
                 (rpc = "done" /\ RegisterSucceeded)

(***************************************************************************)
(* Registration over every appURL                                          *)
(***************************************************************************)
\* The strings of at most MaxURLLen characters, of slashes and others.
URLStrings == UNION {[1..n -> {"h", "/"}] : n \in 0..MaxURLLen}

AllArgs ==
    [appName : {"app1"}, functions : {<<>>, <<"fn">>}, appURL : URLStrings]

InitNormalize ==
    InitWith(Variants, {"k1"}, AllArgs, {<<Resp(200, ""), NetErr("refused")>>},
             SomeRegScripts, {[hdr |-> Stall, body |-> Stall]})

SpecNormalize == InitNormalize /\ [][NextDiscoveryRegister]_vars

EndsWithSlash(u) == Len(u) > 0 /\ u[Len(u)] = "/"

\* C14: the url of every registration payload sent is appURL without one
\* trailing slash when appURL ends with a slash, and appURL itself
\* otherwise; the payload holds the three fields appName, functions and url,
\* and every attempt sends the same payload.
C14_URLNormalization ==
    \A n \in 1..Len(regSent) :
        LET p == regSent[n].payload
            u == args.appURL
        IN  /\ p.hasUrl
            /\ p.appName = args.appName
            /\ p.functions = args.functions
            /\ EndsWithSlash(u) => p.url \o <<"/">> = u
            /\ ~EndsWithSlash(u) => p.url = u
            /\ p = regSent[1].payload

\* C15: the url of a registration request never ends with a slash.
C15_NoTrailingSlash ==
    \A n \in 1..Len(regSent) : ~EndsWithSlash(regSent[n].payload.url)

(***************************************************************************)
(* Properties of the shared state of the client                            *)
(***************************************************************************)
\* The steps of register and callFunction calls leave the instance as it is.
CallsLeaveClientUnchanged ==
    [][(NextRegister \/ NextCall) => UNCHANGED <<sdk, handle, discVars>>]_vars

\* C16: baseURL is written by discovery alone and is only read afterwards,
\* so under every interleaving of register and callFunction calls all the
\* requests of a call target the same baseURL, that of the instance.
C16_WriteOnceBaseURL ==
    /\ \A n \in 1..Len(regSent) : regSent[n].base = regSent[1].base
    /\ \A b \in RequestBases : b = sdk.BaseURL

(***************************************************************************)
(* The API key                                                             *)
(***************************************************************************)
APIKeys == {"k1", "k2"}

\* The whole client under two API keys and one host.
InitKeys ==
    InitWith(Variants, APIKeys, SomeArgs,
             { <<NetErr("timeout"), Resp(500, "")>> },
             { <<NetErr("refused"), Resp(500, "a"), Resp(200, "ok"), NetErr("refused")>> },
             { [hdr |-> Resp(200, ""), body |-> Resp(0, "{\"result\": 42}")],
               [hdr |-> Stall, body |-> Stall] })

SpecKeys == InitKeys /\ [][Next]_vars

BaseURLs == {""} \cup {urls[i] : i \in 1..Len(urls)}

\* The error of a finished register call is built from the host's answers.
ErrorFromHost(e, script) ==
    \/ e = NoErr
    \/ \E n \in 1..3 :
          /\ e.status = script[n].status
          /\ e.body = script[n].body
          /\ e.detail = script[n].err

\* C17: the API key is stored and nowhere else: every request of discovery,
\* register and callFunction (URL, headers, body) and every outcome is made
\* of the other inputs and of the host's answers alone, so two clients that
\* differ in the key only send the same requests and get the same outcomes.
C17_ApiKeyNonInterference ==
    /\ sdk.exists => sdk.APIKey = apiKey
    /\ sdk.BaseURL \in BaseURLs
    /\ \A n \in 1..Len(probes) : probes[n] = [base |-> urls[n], path |-> "/list"]
    /\ \A n \in 1..Len(regSent) :
          /\ DOMAIN regSent[n] = {"base", "path", "contentType", "payload"}
          /\ regSent[n].base \in BaseURLs
          /\ regSent[n].path = "/register"
          /\ regSent[n].contentType = "application/json"
          /\ DOMAIN regSent[n].payload = {"appName", "functions", "url", "hasUrl"}
          /\ regSent[n].payload.appName = args.appName
          /\ regSent[n].payload.functions = args.functions
          /\ regSent[n].payload.url \in {<<>>, args.appURL,
                                         SubSeq(args.appURL, 1, Len(args.appURL) - 1)}
    /\ \A n \in 1..Len(callSent) :
          /\ DOMAIN callSent[n] = {"base", "path", "contentType", "body"}
          /\ callSent[n].base \in BaseURLs
          /\ callSent[n].path = "/call-function"
          /\ callSent[n].contentType = "application/json"
          /\ DOMAIN callSent[n].body =
                {"hasUrl", "url", "caller", "targetApp", "functionName", "payload"}
          /\ callSent[n].body.url \in {"", CallArgs.url}
          /\ callSent[n].body.caller = CallArgs.caller
          /\ callSent[n].body.targetApp = CallArgs.targetApp
          /\ callSent[n].body.functionName = CallArgs.functionName
          /\ callSent[n].body.payload = CallArgs.payload
    /\ ErrorFromHost(regResult.err, regScript)
    /\ ErrorFromHost(lastErr, regScript)
    /\ callResult.err.body \in {"", callScript.body.body}
    /\ callResult.err.detail \notin APIKeys
    /\ callResult.value.text \in {"", callScript.body.body}

C17_Witness ==
    /\ apiKey = "k2" /\ sdk.APIKey = "k2"
    /\ dpc = "done" /\ Len(probes) = 2
    /\ rpc = "done" /\ Len(regSent) = 3
    /\ cpc = "done" /\ Len(callSent) = 1 /\ CallSucceeded

(***************************************************************************)
(* Delays and termination of registration                                  *)
(***************************************************************************)
\* The number of attempts of the current call that have ended.
AttemptsAnswered == IF rpc = "wait" THEN Len(regSent) - 1 ELSE Len(regSent)

FailedSoFar == Cardinality({n \in 1..AttemptsAnswered : AttemptFails(n)})

\* C18: each failed attempt, the 3rd included, is followed by one delay of 1
\* second and a successful attempt by none: the seconds slept are the number
\* of failed attempts, 3 for a call that exhausts its attempts and k-1 for a
\* call that succeeds on attempt k.
C18_DelayPlacement ==
    /\ regDelays = FailedSoFar
    /\ (rpc = "done" /\ \A j \in 1..3 : AttemptFails(j)) => regDelays = 3
    /\ \A k \in 1..3 :
          (rpc = "done" /\ AttemptSucceeds(k) /\ \A j \in 1..(k - 1) : AttemptFails(j))
              => regDelays = k - 1

C18_Witness ==
    /\ rpc = "done"
    /\ regScript[1].kind = "neterr"
    /\ regScript[2].kind = "resp"
    /\ \A j \in 1..3 : AttemptFails(j)
    /\ regDelays = 3

(***************************************************************************)
(* The variants side by side                                               *)
(***************************************************************************)
RECURSIVE DiscoverFrom(_, _, _)
\* The baseURL the loop of variant v ends with, from candidate idx on,
\* against the probe outcomes of script.
DiscoverFrom(v, idx, script) ==
    LET r == ProbeLoop(v, idx, script[idx], "") IN
    IF r.done THEN r.base ELSE DiscoverFrom(v, r.idx, script)

RECURSIVE RegisterFrom(_, _, _, _)
\* The requests sent and the result of the retry loop of variant v, from
\* counter i on, against the attempt outcomes of script.
RegisterFrom(v, i, last, script) ==
    LET r == RegisterAttempt(v, i, script[i + 1], last) IN
    IF r.done THEN [requests |-> i + 1, result |-> r.result]
    ELSE RegisterFrom(v, r.i, r.lastErr, script)

\* The end of a call of variant v that the host ended in the way cause.
CallEnd(v, cause, pc, cs) ==
    CASE cause = "timeout"   -> CallTimedOut(v, pc)
      [] cause = "transport" ->
            IF cs.hdr.kind = "neterr" THEN CallTransportError(v, cs.hdr.err)
                                      ELSE CallReadError(v, cs.body.err)
      [] OTHER               -> CallOutcome(v, cs.hdr.status, cs.body.body)

\* The kind of an outcome: result, or transport, timeout, status or decode error.
OutcomeKind(res) ==
    CASE res.err = NoErr                        -> "result"
      [] res.err.kind \in {"status", "decode", "timeout"} -> res.err.kind
      [] OTHER                                  -> "transport"

\* The phase in which the timer ended the finished call: the TypeScript timer
\* is cleared after the headers, the Go error names the step that failed.
TimedOutPhase ==
    IF variant = "ts" \/ callResult.err.kind = "calling" THEN "headers" ELSE "body"

\* The finished call ended at a moment at which the timer of either variant
\* lets it end in that way: by the timer while waiting for the headers, or
\* by the host before the timeout has elapsed.
SameEndForBoth ==
    IF callCause = "timeout" THEN TimedOutPhase = "headers"
                             ELSE elapsed < CallTimeoutSec

OtherVariant == IF variant = "ts" THEN "go" ELSE "ts"

\* C19: against the same host, src/unnamed/part_000 and the TypeScript
\* variant adopt the same baseURL, send the same number of register
\* requests and end register with the same kind of outcome, and end
\* callFunction with the same kind of outcome: what the running variant
\* did is what the other one does against that host.
C19_VariantEquivalence ==
    variant \in {"go", "ts"} =>
        /\ dpc = "done" => sdk.BaseURL = DiscoverFrom(OtherVariant, 1, probeScript)
        /\ rpc = "done" =>
              LET o == RegisterFrom(OtherVariant, 0, NoErr, regScript) IN
              /\ Len(regSent) = o.requests
              /\ regResult.err.kind = o.result.err.kind
        /\ (cpc = "done" /\ SameEndForBoth) =>
              OutcomeKind(callResult)
                 = OutcomeKind(CallEnd(OtherVariant, callCause, TimedOutPhase, callScript))

(***************************************************************************)
(* Termination of register                                                 *)
(***************************************************************************)
RegisterPending == rpc \in {"send", "wait"}

\* The host completes every request of the register call.
EveryRequestCompletes == \A k \in 1..3 : regScript[k].kind # "stall"

\* The request in flight is one the host never completes.
RequestStalled == rpc = "wait" /\ regScript[ri + 1].kind = "stall"

\* C20: a register call sends at most 3 requests and takes at most 3 delays,
\* and has sent at least 1 request when it returns; within a call the
\* attempt counter never decreases and moves by one; a request that never
\* completes leaves the call pending, with nothing done in the meantime;
\* and when the host completes every request, every register call returns.
C20_RegisterTerminates ==
    /\ [](Len(regSent) <= 3 /\ regDelays <= 3 /\ ri <= 3)
    /\ [](rpc = "done" => Len(regSent) >= 1 /\ regResult.how # "none")
    /\ [][RegisterPending => ri' >= ri /\ ri' <= ri + 1]_vars
    /\ [][RequestStalled => rpc' = "wait" /\ UNCHANGED regVars]_vars
    /\ (RegisterPending /\ EveryRequestCompletes) ~> (rpc = "done")

C20_Witness ==
    /\ rpc = "done" /\ EveryRequestCompletes
    /\ Len(regSent) = 3 /\ regDelays = 3 /\ ri = 3
    /\ RegisterFailed

====
